---- MODULE Spec2Model ----
(***************************************************************************)
(* Model of lesson3/homework/main.go: process(), the block-wise copy with  *)
(* offset, limit, block size and the conversions upper_case, lower_case    *)
(* and trim_spaces.  Bytes are integers 0..255, runes are integers, byte   *)
(* slices are sequences.                                                   *)
(***************************************************************************)
EXTENDS Integers, Sequences, FiniteSets, TLC

\* ------------------------------------------------------------------ bounds
MaxTokens == 3
MaxMixed == 2
MaxAscii == 4
MaxBlockSize == 4
MaxOffset == 3
MaxLimit == 3
MaxAdds == 4
MaxN == 4

\* --------------------------------------------------------------- constants
RuneError == 65533
RuneSelf == 128
UTFMax == 4

UpperCase == "upper_case"
LowerCase == "lower_case"
TrimSpaces == "trim_spaces"

\* ------------------------------------------------------------ byte slices
Min(a, b) == IF a < b THEN a ELSE b

Max(a, b) == IF a < b THEN b ELSE a

Range(s) == {s[i] : i \in 1..Len(s)}

\* s[from:] with a 0-based index, as Go slices
SliceFrom(s, from) == SubSeq(s, from + 1, Len(s))

\* s[:to] with a 0-based exclusive end, as Go slices
SliceTo(s, to) == SubSeq(s, 1, to)

\* ------------------------------------------------------------ unicode/utf8
Invalid == [r |-> RuneError, size |-> 1]

\* utf8.DecodeRune: the first rune of p and its width; (RuneError, 0) for an
\* empty p, (RuneError, 1) for an invalid or incomplete encoding
DecodeRune(p) ==
    LET n == Len(p) IN
    IF n < 1 THEN [r |-> RuneError, size |-> 0]
    ELSE LET p0 == p[1] IN
         IF p0 < RuneSelf THEN [r |-> p0, size |-> 1]
         ELSE IF p0 < 194 \/ p0 > 244 THEN Invalid
         ELSE LET sz == IF p0 < 224 THEN 2 ELSE IF p0 < 240 THEN 3 ELSE 4
                  lo == IF p0 = 224 THEN 160 ELSE IF p0 = 240 THEN 144 ELSE 128
                  hi == IF p0 = 237 THEN 159 ELSE IF p0 = 244 THEN 143 ELSE 191
              IN IF n < sz THEN Invalid
                 ELSE IF p[2] < lo \/ hi < p[2] THEN Invalid
                 ELSE IF sz = 2
                      THEN [r |-> (p0 % 32) * 64 + (p[2] % 64), size |-> 2]
                 ELSE IF p[3] < 128 \/ 191 < p[3] THEN Invalid
                 ELSE IF sz = 3
                      THEN [r |-> (p0 % 16) * 4096 + (p[2] % 64) * 64 + (p[3] % 64),
                            size |-> 3]
                 ELSE IF p[4] < 128 \/ 191 < p[4] THEN Invalid
                 ELSE [r |-> (p0 % 8) * 262144 + (p[2] % 64) * 4096
                              + (p[3] % 64) * 64 + (p[4] % 64),
                       size |-> 4]

\* utf8.RuneStart: b is not a continuation byte
RuneStart(b) == (b < 128) \/ (b > 191)

RECURSIVE LastStart(_, _, _)
\* the backwards scan of utf8.DecodeLastRune for the start of the last rune
LastStart(p, start, lim) ==
    IF start < lim THEN start
    ELSE IF RuneStart(p[start + 1]) THEN start
    ELSE LastStart(p, start - 1, lim)

\* utf8.DecodeLastRune: the last rune of p and its width
DecodeLastRune(p) ==
    LET end == Len(p) IN
    IF end = 0 THEN [r |-> RuneError, size |-> 0]
    ELSE IF p[end] < RuneSelf THEN [r |-> p[end], size |-> 1]
    ELSE LET lim == Max(end - UTFMax, 0)
             st0 == LastStart(p, end - 2, lim)
             start == Max(st0, 0)
             d == DecodeRune(SubSeq(p, start + 1, end))
         IN IF start + d.size # end THEN Invalid ELSE d

\* utf8.AppendRune(nil, r): the UTF-8 encoding of r
EncodeRune(r) ==
    IF r < 128 THEN <<r>>
    ELSE IF r < 2048 THEN <<192 + (r \div 64), 128 + (r % 64)>>
    ELSE IF r > 1114111 \/ (55296 <= r /\ r <= 57343) THEN <<239, 191, 189>>
    ELSE IF r < 65536
         THEN <<224 + (r \div 4096), 128 + ((r \div 64) % 64), 128 + (r % 64)>>
    ELSE <<240 + (r \div 262144), 128 + ((r \div 4096) % 64),
           128 + ((r \div 64) % 64), 128 + (r % 64)>>

\* utf8.AppendRune(p, r)
AppendRune(p, r) == p \o EncodeRune(r)

\* --------------------------------------------------------------- unicode
\* unicode.To(unicode.UpperCase, r), on the ranges of the case tables that
\* the inputs of this model can reach
ToUpper(r) ==
    IF 97 <= r /\ r <= 122 THEN r - 32
    ELSE IF 224 <= r /\ r <= 254 /\ r # 247 THEN r - 32
    ELSE IF r = 255 THEN 376
    ELSE IF r = 305 THEN 73
    ELSE IF r = 592 THEN 11375
    ELSE IF 66600 <= r /\ r <= 66639 THEN r - 40
    ELSE r

\* unicode.To(unicode.LowerCase, r), on the same ranges
ToLower(r) ==
    IF 65 <= r /\ r <= 90 THEN r + 32
    ELSE IF 192 <= r /\ r <= 222 /\ r # 215 THEN r + 32
    ELSE IF r = 376 THEN 255
    ELSE IF r = 11375 THEN 592
    ELSE IF 66560 <= r /\ r <= 66599 THEN r + 40
    ELSE r

\* unicode.IsSpace
IsSpace(r) ==
    IF r <= 255
    THEN r \in {9, 10, 11, 12, 13, 32, 133, 160}
    ELSE \/ r = 5760
         \/ (8192 <= r /\ r <= 8202)
         \/ r \in {8232, 8233, 8239, 8287, 12288}

RECURSIVE LastIndexNotSpace(_, _)
\* bytes.lastIndexFunc(s, unicode.IsSpace, false) over s[:i]: the index of
\* the last rune that is not a space, or -1
LastIndexNotSpace(s, i) ==
    IF i <= 0 THEN -1
    ELSE LET d == IF s[i] >= RuneSelf
                  THEN DecodeLastRune(SliceTo(s, i))
                  ELSE [r |-> s[i], size |-> 1]
             j == i - d.size
         IN IF ~IsSpace(d.r) THEN j ELSE LastIndexNotSpace(s, j)

\* bytes.TrimRightFunc(s, unicode.IsSpace)
TrimRightSpace(s) ==
    LET i == LastIndexNotSpace(s, Len(s)) IN
    IF i >= 0 /\ s[i + 1] >= RuneSelf
    THEN SliceTo(s, i + DecodeRune(SliceFrom(s, i)).size)
    ELSE SliceTo(s, i + 1)

\* ------------------------------------------------------- the conversions
RECURSIVE ApplyConvEarlyExit(_, _, _, _)
\* faulty variant: trim_spaces leaves the loop over the conversions once it has
\* seen a rune that is not a space
ApplyConvEarlyExit(conv, i, r, ended) ==
    IF i > Len(conv) THEN [r |-> r, drop |-> FALSE, ended |-> ended]
    ELSE IF conv[i] = UpperCase THEN ApplyConvEarlyExit(conv, i + 1, ToUpper(r), ended)
    ELSE IF conv[i] = LowerCase THEN ApplyConvEarlyExit(conv, i + 1, ToLower(r), ended)
    ELSE IF conv[i] = TrimSpaces
         THEN IF IsSpace(r)
              THEN IF ~ended
                   THEN [r |-> r, drop |-> TRUE, ended |-> ended]
                   ELSE ApplyConvEarlyExit(conv, i + 1, r, ended)
              ELSE [r |-> r, drop |-> FALSE, ended |-> TRUE]
    ELSE ApplyConvEarlyExit(conv, i + 1, r, ended)

RECURSIVE ApplyConvDropAll(_, _, _, _)
\* faulty variant: trim_spaces drops a space whatever isSpaceEnded is
ApplyConvDropAll(conv, i, r, ended) ==
    IF i > Len(conv) THEN [r |-> r, drop |-> FALSE, ended |-> ended]
    ELSE IF conv[i] = UpperCase THEN ApplyConvDropAll(conv, i + 1, ToUpper(r), ended)
    ELSE IF conv[i] = LowerCase THEN ApplyConvDropAll(conv, i + 1, ToLower(r), ended)
    ELSE IF conv[i] = TrimSpaces
         THEN IF IsSpace(r)
              THEN [r |-> r, drop |-> TRUE, ended |-> ended]
              ELSE ApplyConvDropAll(conv, i + 1, r, TRUE)
    ELSE ApplyConvDropAll(conv, i + 1, r, ended)

RECURSIVE ApplyConv(_, _, _, _)
\* the loop over parsedConv for one rune r: the rune after the case
\* conversions, whether trim_spaces drops it (continue SymbolIterate), and
\* isSpaceEnded afterwards
ApplyConv(conv, i, r, ended) ==
    IF i > Len(conv) THEN [r |-> r, drop |-> FALSE, ended |-> ended]
    ELSE IF conv[i] = UpperCase THEN ApplyConv(conv, i + 1, ToUpper(r), ended)
    ELSE IF conv[i] = LowerCase THEN ApplyConv(conv, i + 1, ToLower(r), ended)
    ELSE IF conv[i] = TrimSpaces
         THEN IF IsSpace(r)
              THEN IF ~ended
                   THEN [r |-> r, drop |-> TRUE, ended |-> ended]
                   ELSE ApplyConv(conv, i + 1, r, ended)
              ELSE ApplyConv(conv, i + 1, r, TRUE)
    ELSE ApplyConv(conv, i + 1, r, ended)

\* the guard that stops decoding on a short buffer with a failed decode
StopsShort(buffer, d) == Len(buffer) < 3 /\ (d.size <= 0 \/ d.r = RuneError)

\* the candidate write buffer for rune r decoded from the head of buffer
NewWriteBuf(writerBuf, buffer, r, size) ==
    IF r = RuneError THEN SliceTo(buffer, size) ELSE AppendRune(writerBuf, r)

RECURSIVE SymbolIterateInputWidth(_, _, _, _, _, _)
\* faulty variant: the block is measured with the width the rune had in the
\* source, not with the width of the converted rune
SymbolIterateInputWidth(buffer, writerBuf, ended, raw, runes, o) ==
    IF Len(buffer) = 0
    THEN [buffer |-> buffer, writerBuf |-> writerBuf, ended |-> ended,
          raw |-> raw, runes |-> runes]
    ELSE LET d == DecodeRune(buffer) IN
         IF StopsShort(buffer, d)
         THEN [buffer |-> buffer, writerBuf |-> writerBuf, ended |-> ended,
               raw |-> raw, runes |-> runes]
         ELSE LET c == ApplyConv(o.Conv, 1, d.r, ended)
                  raw2 == IF d.r = RuneError /\ d.size = 1 THEN raw + 1 ELSE raw
              IN IF c.drop
                 THEN SymbolIterateInputWidth(SliceFrom(buffer, d.size), writerBuf,
                                              c.ended, raw2,
                                              Append(runes, [r |-> d.r, fate |-> "dropped"]),
                                              o)
                 ELSE LET newWriteBuf == NewWriteBuf(writerBuf, buffer, c.r, d.size)
                      IN IF Len(writerBuf) + d.size > o.BlockSize
                         THEN [buffer |-> buffer, writerBuf |-> writerBuf,
                               ended |-> c.ended, raw |-> raw,
                               runes |-> Append(runes, [r |-> d.r, fate |-> "refused"])]
                         ELSE SymbolIterateInputWidth(SliceFrom(buffer, d.size),
                                                      newWriteBuf, c.ended, raw2,
                                                      Append(runes, [r |-> d.r, fate |-> "kept"]),
                                                      o)

RECURSIVE SymbolIterate(_, _, _, _, _, _)
\* the loop labelled SymbolIterate: decodes buffer rune by rune into
\* writerBuf.  raw counts the decodes that failed (RuneError of width 1) and
\* were taken as a pass-through unit; runes lists the runes that went through
\* the conversions, each with what became of it: "dropped" by trim_spaces,
\* "kept" in the block, or "refused" because the block would be too long.
SymbolIterate(buffer, writerBuf, ended, raw, runes, o) ==
    IF Len(buffer) = 0
    THEN [buffer |-> buffer, writerBuf |-> writerBuf, ended |-> ended,
          raw |-> raw, runes |-> runes]
    ELSE LET d == DecodeRune(buffer) IN
         IF StopsShort(buffer, d)
         THEN [buffer |-> buffer, writerBuf |-> writerBuf, ended |-> ended,
               raw |-> raw, runes |-> runes]
         ELSE LET c == ApplyConv(o.Conv, 1, d.r, ended)
                  raw2 == IF d.r = RuneError /\ d.size = 1 THEN raw + 1 ELSE raw
              IN IF c.drop
                 THEN SymbolIterate(SliceFrom(buffer, d.size), writerBuf, c.ended,
                                    raw2, Append(runes, [r |-> d.r, fate |-> "dropped"]),
                                    o)
                 ELSE LET newWriteBuf == NewWriteBuf(writerBuf, buffer, c.r, d.size)
                      IN IF Len(newWriteBuf) > o.BlockSize
                         THEN [buffer |-> buffer, writerBuf |-> writerBuf,
                               ended |-> c.ended, raw |-> raw,
                               runes |-> Append(runes, [r |-> d.r, fate |-> "refused"])]
                         ELSE SymbolIterate(SliceFrom(buffer, d.size), newWriteBuf,
                                            c.ended, raw2,
                                            Append(runes, [r |-> d.r, fate |-> "kept"]),
                                            o)

\* faulty variant: the limit is not taken into account when the buffer is sized
MaxReadLengthNoLimit(total, o) == o.BlockSize

\* the size of the buffer handed to Read
MaxReadLength(total, o) ==
    IF o.Limit > 0 /\ total + o.BlockSize > o.Limit
    THEN o.Limit - total
    ELSE o.BlockSize

\* faulty variant: the block is trimmed on the right whatever isSpaceEnded is
DecodedTrimAlways(prev, chunk, ended, o) ==
    LET it == SymbolIterate(prev \o chunk, <<>>, ended, 0, <<>>, o) IN
    [prevBuffer |-> it.buffer,
     isSpaceEnded |-> it.ended,
     writerBuf |-> TrimRightSpace(it.writerBuf),
     block |-> it.writerBuf,
     cut |-> TrimRightSpace(it.writerBuf) # it.writerBuf,
     raw |-> it.raw,
     runes |-> it.runes]

\* one iteration from the bytes of a successful Read up to the buffer that
\* is about to be written: the carry is prepended, the runes are decoded and
\* converted, the rest is saved and the block is trimmed on the right
Decoded(prev, chunk, ended, o) ==
    LET it == SymbolIterate(prev \o chunk, <<>>, ended, 0, <<>>, o) IN
    [prevBuffer |-> it.buffer,
     isSpaceEnded |-> it.ended,
     writerBuf |-> IF it.ended THEN TrimRightSpace(it.writerBuf) ELSE it.writerBuf,
     block |-> it.writerBuf,
     cut |-> it.ended /\ TrimRightSpace(it.writerBuf) # it.writerBuf,
     raw |-> it.raw,
     runes |-> it.runes]

\* the test that ends the main cycle
\* faulty variant: the end of the input does not end the cycle
IsLastLimitOnly(endFile, total, o) == o.Limit > 0 /\ total >= o.Limit

IsLast(endFile, total, o) == endFile \/ (o.Limit > 0 /\ total >= o.Limit)

\* ------------------------------------------------------------------ state
VARIABLES
    input,          \* the bytes the source holds
    opts,           \* Options: Offset, Limit, BlockSize, Conv (parsed)
    pos,            \* bytes of input the reader has delivered or discarded
    prevBuffer,     \* the bytes saved for the next iteration
    isSpaceEnded,   \* a rune that is not a space has been seen
    totalReadBytes, \* bytes read by the main cycle
    writerBuf,      \* the block about to be written
    count,          \* result of the last Read
    endFile,        \* the last Read returned io.EOF
    out,            \* the bytes the sink has received
    pc,             \* "offset", "read", "write", "flush", "done", "error"
    err,            \* "none", "offset", "read", "write"
    sched,          \* history: the results <<count, eof>> of the Reads
    nRead,          \* history: calls of Read in the main cycle
    nWrite,         \* history: calls of Write
    rawN,           \* history: failed decodes taken as pass-through units
    cutN,           \* history: blocks that lost bytes to the trim on the right
    seen,           \* history: the runes given to the conversions, with their fate
    block,          \* history: the block of this iteration before its trim
    tags,           \* TagCloud.tags: the map from a tag to its count
    stats,          \* the slice the last call of TopN returned
    asked,          \* n, when the last call on the cloud was TopN(n); else -1
    added           \* history: the tags given to AddTag, in order

\* the variables of the tag cloud (lesson2/homework/tagcloud)
cloudVars == <<tags, stats, asked, added>>

\* the variables of process (lesson3/homework)
procVars == <<input, opts, pos, prevBuffer, isSpaceEnded, totalReadBytes, writerBuf,
              count, endFile, out, pc, err, sched, nRead, nWrite, rawN, cutN,
              seen, block>>

vars == <<input, opts, pos, prevBuffer, isSpaceEnded, totalReadBytes, writerBuf,
          count, endFile, out, pc, err, sched, nRead, nWrite, rawN, cutN,
          seen, block, tags, stats, asked, added>>

\* ----------------------------------------------------------------- inputs
SpaceTok == <<32>>
LetterTok == <<97>>
CapitalTok == <<65>>
TwoByteTok == <<195, 169>>
ReplacementTok == <<239, 191, 189>>
FourByteTok == <<240, 144, 144, 168>>
BadByteTok == <<255>>
\* U+0250, whose upper case U+2C6F is one byte longer
GrowTok == <<201, 144>>
\* U+3000, a whitespace rune of three bytes
WideSpaceTok == <<227, 128, 128>>

Tokens ==
    {SpaceTok, LetterTok, CapitalTok, TwoByteTok, ReplacementTok, FourByteTok,
     BadByteTok}

AsciiTokens == {SpaceTok, LetterTok, CapitalTok}

CarryTokens == {LetterTok, TwoByteTok, GrowTok, FourByteTok, BadByteTok}

TrimTokens == {SpaceTok, LetterTok, TwoByteTok, WideSpaceTok}

RECURSIVE Flatten(_)
Flatten(ts) == IF Len(ts) = 0 THEN <<>> ELSE Head(ts) \o Flatten(Tail(ts))

\* the byte sequences made of at most n tokens of toks
InputsOf(toks, n) ==
    {Flatten(ts) : ts \in UNION {[1..k -> toks] : k \in 0..n}}

ConvLists ==
    {<<>>, <<UpperCase>>, <<LowerCase>>, <<TrimSpaces>>,
     <<TrimSpaces, UpperCase>>, <<UpperCase, TrimSpaces>>,
     <<TrimSpaces, LowerCase>>, <<LowerCase, TrimSpaces>>}

CarryConvs == {<<>>, <<UpperCase>>}

TrimConvs == {<<>>, <<UpperCase>>, <<TrimSpaces>>, <<TrimSpaces, UpperCase>>}

OrderConvs ==
    {<<TrimSpaces, UpperCase>>, <<UpperCase, TrimSpaces>>,
     <<TrimSpaces, LowerCase>>, <<LowerCase, TrimSpaces>>}

\* tagcloud.New: a cloud with no tag
New ==
    /\ tags = <<>>
    /\ stats = <<>>
    /\ asked = -1
    /\ added = <<>>

\* the state at the start of the main cycle of process, for a source and
\* options drawn from the given sets
InitWith(inputs, convs, offsets, limits, sizes) ==
    /\ input \in inputs
    /\ opts \in [Offset : offsets, Limit : limits, BlockSize : sizes, Conv : convs]
    /\ pos = 0
    /\ prevBuffer = <<>>
    /\ isSpaceEnded = FALSE
    /\ totalReadBytes = 0
    /\ writerBuf = <<>>
    /\ count = 0
    /\ endFile = FALSE
    /\ out = <<>>
    /\ pc = "offset"
    /\ err = "none"
    /\ sched = <<>>
    /\ nRead = 0
    /\ nWrite = 0
    /\ rawN = 0
    /\ cutN = 0
    /\ seen = <<>>
    /\ block = <<>>
    /\ New

\* every option varies, over short sources
Init == InitWith(InputsOf(Tokens, MaxMixed), ConvLists, 0..MaxOffset,
                 0..MaxLimit, 1..MaxBlockSize)

\* no conversion, no offset and no limit, over longer sources
InitIdentity == InitWith(InputsOf(Tokens, MaxTokens), {<<>>}, {0}, {0},
                         1..MaxBlockSize)

\* trim_spaces together with a case conversion, in both orders
InitOrder == InitWith(InputsOf(Tokens, MaxMixed), OrderConvs, {0}, {0},
                      1..MaxBlockSize)

\* sources of single-byte runes, no conversion; offset, limit and block
\* size vary
InitWindow == InitWith(InputsOf(AsciiTokens, MaxAscii), {<<>>}, 0..MaxOffset,
                       0..MaxLimit, 1..MaxBlockSize)

\* runes of several widths, one of them growing in upper case, and an
\* invalid byte; the limit and the block size vary
InitCarry == InitWith(InputsOf(CarryTokens, MaxMixed), CarryConvs, {0},
                      0..MaxLimit, 1..MaxBlockSize)

\* whitespace of one and three bytes among letters, with and without
\* trim_spaces
InitTrim == InitWith(InputsOf(TrimTokens, MaxTokens), TrimConvs, {0}, {0},
                     1..MaxBlockSize)

\* ---------------------------------------------------------------- actions
\* faulty variant: the error of io.CopyN on a short source is not looked at
ApplyOffsetUnchecked ==
    /\ pc = "offset"
    /\ pos' = Min(opts.Offset, Len(input))
    /\ pc' = "read"
    /\ UNCHANGED <<input, opts, prevBuffer, isSpaceEnded, totalReadBytes, writerBuf,
                   count, endFile, out, err, sched, nRead, nWrite, rawN, cutN>>
    /\ UNCHANGED <<seen, block>>
    /\ UNCHANGED cloudVars

\* io.CopyN(io.Discard, reader, opts.Offset)
ApplyOffset ==
    /\ pc = "offset"
    /\ IF Len(input) < opts.Offset
       THEN /\ pos' = Len(input)
            /\ pc' = "error"
            /\ err' = "offset"
       ELSE /\ pos' = opts.Offset
            /\ pc' = "read"
            /\ err' = err
    /\ UNCHANGED <<input, opts, prevBuffer, isSpaceEnded, totalReadBytes, writerBuf,
                   count, endFile, out, sched, nRead, nWrite, rawN, cutN>>
    /\ UNCHANGED <<seen, block>>
    /\ UNCHANGED cloudVars

\* the results a Read into a buffer of max bytes can give with rest bytes
\* left in the source: some bytes, the last ones possibly together with
\* io.EOF, or no byte and io.EOF at the end
ReadResults(max, rest) ==
    IF rest = 0 THEN {<<0, TRUE>>}
    ELSE {<<n, FALSE>> : n \in 1..Min(max, rest)}
         \cup (IF rest <= max THEN {<<rest, TRUE>>} ELSE {})

\* a Read that succeeds or ends the input, and the decoding of its block
ReadBlock ==
    /\ pc = "read"
    /\ \E res \in ReadResults(MaxReadLength(totalReadBytes, opts), Len(input) - pos) :
         LET chunk == SubSeq(input, pos + 1, pos + res[1])
             d == Decoded(prevBuffer, chunk, isSpaceEnded, opts)
         IN /\ count' = res[1]
            /\ endFile' = res[2]
            /\ pos' = pos + res[1]
            /\ prevBuffer' = d.prevBuffer
            /\ isSpaceEnded' = d.isSpaceEnded
            /\ writerBuf' = d.writerBuf
            /\ rawN' = rawN + d.raw
            /\ cutN' = cutN + (IF d.cut THEN 1 ELSE 0)
            /\ seen' = seen \o d.runes
            /\ block' = d.block
            /\ sched' = Append(sched, res)
    /\ nRead' = nRead + 1
    /\ pc' = "write"
    /\ UNCHANGED <<input, opts, totalReadBytes, out, err, nWrite>>
    /\ UNCHANGED cloudVars

\* faulty variant: every error of Read is taken as the end of the input
ReadFailAsEOF ==
    /\ pc = "read"
    /\ \E n \in 0..Min(MaxReadLength(totalReadBytes, opts), Len(input) - pos) :
         LET d == Decoded(prevBuffer, SubSeq(input, pos + 1, pos + n), isSpaceEnded, opts)
         IN /\ pos' = pos + n
            /\ count' = n
            /\ prevBuffer' = d.prevBuffer
            /\ isSpaceEnded' = d.isSpaceEnded
            /\ writerBuf' = d.writerBuf
    /\ endFile' = TRUE
    /\ nRead' = nRead + 1
    /\ pc' = "write"
    /\ err' = "read"
    /\ UNCHANGED <<input, opts, totalReadBytes, out, sched, nWrite, rawN, cutN>>
    /\ UNCHANGED <<seen, block>>
    /\ UNCHANGED cloudVars

\* a Read that fails with an error other than io.EOF, after n bytes
ReadFail ==
    /\ pc = "read"
    /\ \E n \in 0..Min(MaxReadLength(totalReadBytes, opts), Len(input) - pos) :
         /\ pos' = pos + n
         /\ count' = n
    /\ nRead' = nRead + 1
    /\ pc' = "error"
    /\ err' = "read"
    /\ UNCHANGED <<input, opts, prevBuffer, isSpaceEnded, totalReadBytes, writerBuf,
                   endFile, out, sched, nWrite, rawN, cutN>>
    /\ UNCHANGED <<seen, block>>
    /\ UNCHANGED cloudVars

\* writer.Write(writerBuf) succeeds; the cycle ends or goes on
WriteBlock ==
    /\ pc = "write"
    /\ out' = out \o writerBuf
    /\ nWrite' = nWrite + 1
    /\ totalReadBytes' = totalReadBytes + count
    /\ pc' = IF IsLast(endFile, totalReadBytes + count, opts) THEN "flush" ELSE "read"
    /\ writerBuf' = <<>>
    /\ count' = 0
    /\ endFile' = FALSE
    /\ UNCHANGED <<input, opts, pos, prevBuffer, isSpaceEnded, err, sched, nRead,
                   rawN, cutN>>
    /\ UNCHANGED <<seen, block>>
    /\ UNCHANGED cloudVars

\* faulty variant: the cycle ends without writing prevBuffer
WriteCarrySkipped ==
    /\ pc = "flush"
    /\ pc' = "done"
    /\ UNCHANGED <<input, opts, pos, prevBuffer, isSpaceEnded, totalReadBytes,
                   writerBuf, count, endFile, out, err, sched, nRead, nWrite,
                   rawN, cutN>>
    /\ UNCHANGED <<seen, block>>
    /\ UNCHANGED cloudVars

\* writer.Write(prevBuffer) succeeds at the end of the cycle
WriteCarry ==
    /\ pc = "flush"
    /\ out' = out \o prevBuffer
    /\ nWrite' = nWrite + 1
    /\ pc' = "done"
    /\ UNCHANGED <<input, opts, pos, prevBuffer, isSpaceEnded, totalReadBytes,
                   writerBuf, count, endFile, err, sched, nRead, rawN, cutN>>
    /\ UNCHANGED <<seen, block>>
    /\ UNCHANGED cloudVars

\* the buffer a Write at pc is given
Pending == IF pc = "write" THEN writerBuf ELSE prevBuffer

\* a Write fails after the sink took k bytes of the buffer
WriteFail ==
    /\ pc \in {"write", "flush"}
    /\ \E k \in 0..Max(Len(Pending) - 1, 0) : out' = out \o SliceTo(Pending, k)
    /\ nWrite' = nWrite + 1
    /\ pc' = "error"
    /\ err' = "write"
    /\ UNCHANGED <<input, opts, pos, prevBuffer, isSpaceEnded, totalReadBytes,
                   writerBuf, count, endFile, sched, nRead, rawN, cutN>>
    /\ UNCHANGED <<seen, block>>
    /\ UNCHANGED cloudVars

Next == ApplyOffset \/ ReadBlock \/ ReadFail \/ WriteBlock \/ WriteCarry \/ WriteFail

Spec == Init /\ [][Next]_vars

SpecIdentity == InitIdentity /\ [][Next]_vars

SpecOrder == InitOrder /\ [][Next]_vars

SpecWindow == InitWindow /\ [][Next]_vars

SpecCarry == InitCarry /\ [][Next]_vars

SpecTrim == InitTrim /\ [][Next]_vars

\* the steps of process when every Read and every Write returns without an
\* error other than io.EOF
NextReturns == ApplyOffset \/ ReadBlock \/ WriteBlock \/ WriteCarry

\* letters and a rune that grows in upper case, read whole or up to a limit
LiveTokens == {LetterTok, GrowTok}

InitLive == InitWith(InputsOf(LiveTokens, MaxMixed), CarryConvs, {0},
                     0..MaxLimit, 1..MaxBlockSize)

\* process runs on: a call that returns is followed by the next statement
SpecLive == InitLive /\ [][NextReturns]_vars /\ WF_vars(NextReturns)

\* -------------------------------------------------------------- tag cloud
TagNames == {"go", "tla", "rust"}

\* a cloud on its own: process stays before its first step
InitCloud == InitWith({<<>>}, {<<>>}, {0}, {0}, {1})

\* TagCloud.AddTag(tag): cloud.tags[tag]++
AddTag ==
    /\ Len(added) < MaxAdds
    /\ \E tag \in TagNames :
         /\ tags' = IF tag \in DOMAIN tags
                    THEN [tags EXCEPT ![tag] = @ + 1]
                    ELSE tags @@ (tag :> 1)
         /\ added' = Append(added, tag)
    /\ asked' = -1
    /\ UNCHANGED stats
    /\ UNCHANGED procVars

\* the comparison given to slices.SortFunc: b.OccurrenceCount - a.OccurrenceCount
CmpAscending(a, b) == a.OccurrenceCount - b.OccurrenceCount

Cmp(a, b) == b.OccurrenceCount - a.OccurrenceCount

\* the slices that hold each entry of the map m once (the order of range
\* over a map is not fixed) and that slices.SortFunc can leave: no entry is
\* followed by one that Cmp puts before it
SortedStats(m) ==
    LET k == Cardinality(DOMAIN m)
        orders == {q \in [1..k -> DOMAIN m] : \A i, j \in 1..k : i # j => q[i] # q[j]}
        slice(q) == [i \in 1..k |-> [Tag |-> q[i], OccurrenceCount |-> m[q[i]]]]
    IN {slice(q) : q \in {r \in orders :
                              \A i, j \in 1..k : i < j => Cmp(slice(r)[i], slice(r)[j]) <= 0}}

\* TagCloud.TopN(n), n >= 0: the first n entries of the sorted slice, all of
\* them when there are fewer
TopN ==
    /\ \E n \in 0..MaxN :
         /\ asked' = n
         /\ \E sorted \in SortedStats(tags) :
              stats' = SubSeq(sorted, 1, IF Len(sorted) < n THEN Len(sorted) ELSE n)
    /\ UNCHANGED <<tags, added>>
    /\ UNCHANGED procVars

NextCloud == AddTag \/ TopN

SpecCloud == InitCloud /\ [][NextCloud]_vars

\* ------------------------------------------------------- whole executions
\* the Read of an *os.File: as many bytes as asked while there are some,
\* then no byte and io.EOF
FileRead(max, rest) == IF rest = 0 THEN <<0, TRUE>> ELSE <<Min(max, rest), FALSE>>

RECURSIVE MainCycle(_, _, _, _, _, _, _, _)
\* the main cycle of process run to its end with no failing Read or Write:
\* the bytes written to the sink.  The Reads give the results listed in
\* reads and, once these are used up, the results of an *os.File.
MainCycle(in, o, reads, p, prev, ended, total, acc) ==
    LET res == IF Len(reads) > 0
               THEN Head(reads)
               ELSE FileRead(MaxReadLength(total, o), Len(in) - p)
        rest == IF Len(reads) > 0 THEN Tail(reads) ELSE reads
        d == Decoded(prev, SubSeq(in, p + 1, p + res[1]), ended, o)
    IN IF IsLast(res[2], total + res[1], o)
       THEN (acc \o d.writerBuf) \o d.prevBuffer
       ELSE MainCycle(in, o, rest, p + res[1], d.prevBuffer, d.isSpaceEnded,
                      total + res[1], acc \o d.writerBuf)

\* the output of process on the source in with options o, for Reads that
\* give the results listed in reads (and then those of an *os.File)
ProcessOut(in, o, reads) == MainCycle(in, o, reads, o.Offset, <<>>, FALSE, 0, <<>>)

\* ------------------------------------------------- notions of the claims
RECURSIVE DecodeAll(_)
\* the runes of a byte sequence, one RuneError per byte that does not decode
DecodeAll(p) ==
    IF Len(p) = 0 THEN <<>>
    ELSE LET d == DecodeRune(p) IN <<d.r>> \o DecodeAll(SliceFrom(p, d.size))

RECURSIVE EncodeAll(_)
EncodeAll(rs) == IF Len(rs) = 0 THEN <<>> ELSE EncodeRune(Head(rs)) \o EncodeAll(Tail(rs))

\* p is valid UTF-8 (U+FFFD allowed)
ValidUTF8(p) == EncodeAll(DecodeAll(p)) = p

\* p is valid UTF-8 and holds no U+FFFD
ValidNoReplacement(p) == \A i \in 1..Len(DecodeAll(p)) : DecodeAll(p)[i] # RuneError

\* p holds a byte that no UTF-8 encoding contains
HasBadByte(p) == \E i \in 1..Len(p) : p[i] \in {192, 193} \cup (245..255)

IsAscii(p) == \A i \in 1..Len(p) : p[i] < RuneSelf

NoSpaces(p) == \A i \in 1..Len(DecodeAll(p)) : ~IsSpace(DecodeAll(p)[i])

RECURSIVE DropLeadingSpaces(_)
DropLeadingSpaces(rs) ==
    IF Len(rs) > 0 /\ IsSpace(Head(rs)) THEN DropLeadingSpaces(Tail(rs)) ELSE rs

RECURSIVE DropTrailingSpaces(_)
DropTrailingSpaces(rs) ==
    IF Len(rs) > 0 /\ IsSpace(rs[Len(rs)])
    THEN DropTrailingSpaces(SubSeq(rs, 1, Len(rs) - 1))
    ELSE rs

\* p without its leading and trailing whitespace runes
Stripped(p) == EncodeAll(DropTrailingSpaces(DropLeadingSpaces(DecodeAll(p))))

RECURSIVE FileLike(_, _, _)
\* the results reads are those an *os.File gives from position p on
FileLike(reads, p, total) ==
    IF Len(reads) = 0 THEN TRUE
    ELSE /\ Head(reads) = FileRead(MaxReadLength(total, opts), Len(input) - p)
         /\ FileLike(Tail(reads), p + Head(reads)[1], total + Head(reads)[1])

\* every Read so far behaved as the Read of an *os.File
FileReads == FileLike(sched, opts.Offset, 0)

Plain == opts.Offset = 0 /\ opts.Limit = 0

Done == pc = "done"

\* ------------------------------------------------------------------ claims
\* C1: with no conversion, offset 0 and limit 0, the bytes written to the
\* sink are the bytes of the source, for every block size and every source.
C1_Identity == (Done /\ Plain /\ opts.Conv = <<>>) => out = input

\* C2: for a source and a list of conversions, the output is the same for
\* every block size, when no whitespace can straddle a block boundary (here:
\* trim_spaces is not asked for or the source holds no whitespace).
C2_BlockSizeInvariance ==
    (Done /\ Plain /\ FileReads /\ (TrimSpaces \notin Range(opts.Conv) \/ NoSpaces(input)))
    => \A bs \in 1..MaxBlockSize :
         out = ProcessOut(input, [opts EXCEPT !.BlockSize = bs], <<>>)

\* C3: a multi-byte rune split across Reads is carried and decoded whole: on
\* a source of valid UTF-8 without U+FFFD, read from its start to its end, no
\* byte is ever taken as an invalid pass-through byte.
C3_SplitNeverRaw == (Plain /\ ValidNoReplacement(input)) => rawN = 0

\* C4: an invalid byte is not fatal and is written unchanged in its place,
\* with the runes before and after it: with no conversion, a source that
\* holds an invalid byte comes out whole.
C4_InvalidPassThrough ==
    (Done /\ Plain /\ opts.Conv = <<>> /\ HasBadByte(input) /\ rawN > 0) => out = input

\* C5: on a source of single-byte runes with no conversion, the output is
\* input[offset : min(L, offset+limit)] for a limit above 0 and
\* input[offset : L] for limit 0, for every block size.
Window(in, off, lim) ==
    SubSeq(in, off + 1, IF lim > 0 THEN Min(Len(in), off + lim) ELSE Len(in))

C5_Window ==
    (Done /\ opts.Conv = <<>> /\ IsAscii(input))
    => out = Window(input, opts.Offset, opts.Limit)

C5_Witness ==
    /\ Done
    /\ opts.Conv = <<>>
    /\ IsAscii(input)
    /\ opts.Offset > 0
    /\ opts.Limit > opts.BlockSize
    /\ opts.Offset + opts.Limit < Len(input)
    /\ Len(out) = opts.Limit

\* C6: a source shorter than the offset makes process fail before any Write;
\* a source of exactly offset bytes gives a successful run with no output.
C6_OffsetBeyondInput ==
    /\ (Len(input) < opts.Offset /\ pc # "offset")
       => (pc = "error" /\ err = "offset" /\ nWrite = 0 /\ nRead = 0 /\ out = <<>>)
    /\ (Len(input) >= opts.Offset) => err # "offset"
    /\ (Len(input) = opts.Offset /\ Done) => out = <<>>

C6_Witness == err = "offset" /\ Len(input) > 0 /\ nWrite = 0

\* C7: with trim_spaces alone and the whole source read in one iteration,
\* the output of a valid source is the source without its leading and
\* trailing whitespace runes, the inner ones kept.
SingleBlock ==
    /\ Len(sched) >= 1
    /\ sched[1][1] = Len(input)
    /\ opts.BlockSize >= Len(input)

C7_TrimSingleBlock ==
    (Done /\ Plain /\ opts.Conv = <<TrimSpaces>> /\ ValidUTF8(input) /\ SingleBlock)
    => out = Stripped(input)

\* C8: the lists [trim_spaces, X] and [X, trim_spaces], X a case conversion,
\* give the same output for every source and block size (the Reads giving
\* the same results in both runs).
Swapped(conv) == <<conv[2], conv[1]>>

C8_OrderIndependence ==
    (Done /\ opts.Conv \in OrderConvs)
    => out = ProcessOut(input, [opts EXCEPT !.Conv = Swapped(opts.Conv)], sched)

C8_Witness ==
    /\ Done
    /\ opts.Conv = <<TrimSpaces, UpperCase>>
    /\ 32 \in Range(input)
    /\ 97 \in Range(input)
    /\ 65 \in Range(out)
    /\ Len(out) < Len(input)

\* C9: running process with [upper_case] on the output of a run with
\* [upper_case] and the same block size gives that output again.
C9_UpperIdempotent ==
    (Done /\ Plain /\ FileReads /\ opts.Conv = <<UpperCase>>)
    => ProcessOut(out, opts, <<>>) = out

\* C10: a Read that fails is followed by no Write and its bytes are not
\* written; a Write that fails is followed by no Read and no Write; a failed
\* call is not tried again: process has returned the error.
C10_FatalAbort ==
    [][/\ pc # "error"
       /\ (err' # "none") => (pc' = "error")
       /\ (err' = "read") => (out' = out /\ nWrite' = nWrite /\ nRead' = nRead + 1)
       /\ (err' = "write") => (nRead' = nRead /\ nWrite' = nWrite + 1)]_vars

C10_Witness == err = "read" /\ count > 0 /\ nWrite > 0

\* C11: after any AddTag calls on a new cloud, TopN(n), n >= 0, returns
\* min(n, number of distinct tags) entries, each tag at most once, each with
\* the number of AddTag calls made with it, in non-increasing order of count,
\* no tag left out having a greater count than one returned; the cloud is
\* as the AddTag calls left it.
Occurrences(tag) == Cardinality({i \in 1..Len(added) : added[i] = tag})

C11_TopN ==
    /\ DOMAIN tags = Range(added)
    /\ \A t \in DOMAIN tags : tags[t] = Occurrences(t)
    /\ asked >= 0 =>
         /\ Len(stats) = Min(asked, Cardinality(Range(added)))
         /\ \A i, j \in 1..Len(stats) : i # j => stats[i].Tag # stats[j].Tag
         /\ \A i \in 1..Len(stats) :
              stats[i].OccurrenceCount = Occurrences(stats[i].Tag)
         /\ \A i, j \in 1..Len(stats) :
              i < j => stats[i].OccurrenceCount >= stats[j].OccurrenceCount
         /\ \A t \in Range(added) \ {stats[i].Tag : i \in 1..Len(stats)} :
              \A i \in 1..Len(stats) : Occurrences(t) <= stats[i].OccurrenceCount

C11_Witness ==
    /\ asked = 2
    /\ Len(stats) = 2
    /\ Cardinality(Range(added)) = 3
    /\ stats[1].OccurrenceCount > stats[2].OccurrenceCount

\* C12: the size asked of each Read is block_size for limit 0 and
\* min(block_size, limit - total_read) for a limit above 0; total_read only
\* grows, never exceeds a limit above 0, and no Read is made once it has
\* reached the limit.
Requested ==
    IF opts.Limit = 0
    THEN opts.BlockSize
    ELSE Min(opts.BlockSize, opts.Limit - totalReadBytes)

BoundedReading ==
    /\ (pc = "read") => (MaxReadLength(totalReadBytes, opts) = Requested)
    /\ (pc = "write") => (count <= Requested)
    /\ (opts.Limit > 0) => (totalReadBytes <= opts.Limit)
    /\ (opts.Limit > 0 /\ pc = "read") => (totalReadBytes < opts.Limit)

C12_BoundedReading ==
    [][/\ totalReadBytes' >= totalReadBytes
       /\ BoundedReading
       /\ BoundedReading']_vars

C12_Witness ==
    /\ pc = "read"
    /\ totalReadBytes > 0
    /\ opts.Limit > 0
    /\ opts.Limit - totalReadBytes < opts.BlockSize

\* C13: the block written in an iteration is never longer than block_size,
\* also when the upper case of a rune is longer than the rune and when the
\* carry and the bytes read are together longer than block_size.
C13_BlockBound ==
    /\ Len(block) <= opts.BlockSize
    /\ Len(writerBuf) <= opts.BlockSize
    /\ (pc = "write") => (Len(Pending) <= opts.BlockSize)

C13_Witness ==
    /\ pc = "write"
    /\ opts.Conv = <<UpperCase>>
    /\ writerBuf = <<226, 177, 175>>
    /\ Len(writerBuf) = opts.BlockSize
    /\ Len(writerBuf) + Len(prevBuffer) > opts.BlockSize
    /\ Len(seen) > 0
    /\ seen[Len(seen)].fate = "refused"

\* C14: at the end of every iteration the carry (prevBuffer) is shorter
\* than the longest encoding of a rune, 4 bytes.
C14_CarryBound == Len(prevBuffer) < UTFMax

\* C15: a rune that the block writer refuses stays in the carry and is
\* written converted later; with upper_case, on a source of valid UTF-8 read
\* whole and decoded without any byte taken as invalid, every rune reaches the
\* sink in upper case, the end of the input included.
RECURSIVE UpperAll(_)
UpperAll(rs) == IF Len(rs) = 0 THEN <<>> ELSE <<ToUpper(Head(rs))>> \o UpperAll(Tail(rs))

C15_DeferredConverted ==
    (Done /\ Plain /\ opts.Conv = <<UpperCase>> /\ ValidNoReplacement(input) /\ rawN = 0)
    => out = EncodeAll(UpperAll(DecodeAll(input)))

\* C16: with trim_spaces, isSpaceEnded is false at the start, is true from
\* the first rune that is not a space given to the conversions (kept, or
\* refused by the block writer), and never false again; a rune is dropped
\* exactly when it is a space and the flag is still false.
HasTrim == TrimSpaces \in Range(opts.Conv)

SeenNonSpace(k) == \E i \in 1..k : ~IsSpace(seen[i].r)

StickyTrim ==
    /\ (pc = "offset") => ~isSpaceEnded
    /\ HasTrim => (isSpaceEnded <=> SeenNonSpace(Len(seen)))
    /\ HasTrim => \A i \in 1..Len(seen) :
                    (seen[i].fate = "dropped")
                    <=> (IsSpace(seen[i].r) /\ ~SeenNonSpace(i - 1))

C16_StickyTrim ==
    [][/\ isSpaceEnded => isSpaceEnded'
       /\ StickyTrim
       /\ StickyTrim']_vars

C16_Witness ==
    /\ HasTrim
    /\ isSpaceEnded
    /\ \E i, j, k \in 1..Len(seen) :
         /\ i < j
         /\ j < k
         /\ seen[i].fate = "dropped"
         /\ seen[j].fate = "refused"
         /\ IsSpace(seen[k].r)
         /\ seen[k].fate = "kept"

\* C17: once isSpaceEnded is true, the block written in an iteration is the
\* block without all its trailing whitespace runes (the whitespace inside it
\* kept), so it does not end in whitespace; while isSpaceEnded is false the
\* block is written as it is and no block has lost bytes to the trim.
AllSpaces(p) ==
    /\ ValidUTF8(p)
    /\ \A i \in 1..Len(DecodeAll(p)) : IsSpace(DecodeAll(p)[i])

\* b without the longest run of whitespace runes that ends it
TrailTrim(b) ==
    LET k == CHOOSE n \in 0..Len(b) :
               /\ AllSpaces(SliceFrom(b, n))
               /\ \A m \in 0..(n - 1) : ~AllSpaces(SliceFrom(b, m))
    IN SliceTo(b, k)

C17_BlockTrim ==
    /\ (pc = "write" /\ isSpaceEnded) => (writerBuf = TrailTrim(block))
    /\ (pc = "write" /\ ~isSpaceEnded) => (writerBuf = block)
    /\ ~isSpaceEnded => (cutN = 0)

\* a run of spaces that ended a block is missing from the output although
\* letters followed it
C17_Witness ==
    /\ Done
    /\ opts.Conv = <<TrimSpaces>>
    /\ cutN > 0
    /\ Len(out) < Len(Stripped(input))
    /\ NoSpaces(out)
    /\ Len(out) > 1

\* C18: the write of an iteration's block is followed by the write of the
\* carry exactly when the last Read signalled the end of the input or the
\* bytes read reach the limit; that write appends the whole of prevBuffer to
\* the sink, is the last write (one more than the Reads), and nothing is
\* read or written after it.
LastReadEnded == Len(sched) > 0 /\ sched[Len(sched)][2]

LimitReached == opts.Limit > 0 /\ pos - opts.Offset >= opts.Limit

TerminalFlush ==
    /\ (pc = "write" /\ pc' # "error")
         => /\ out' = out \o writerBuf
            /\ (pc' = "flush") <=> (LastReadEnded \/ LimitReached)
            /\ (pc' = "read") <=> ~(LastReadEnded \/ LimitReached)
    /\ (pc' = "flush") => (pc = "write")
    /\ (pc = "flush" /\ pc' # "error")
         => /\ pc' = "done"
            /\ out' = out \o prevBuffer
            /\ nWrite' = nWrite + 1
            /\ nRead' = nRead
            /\ pos' = pos
    /\ pc # "done"

C18_TerminalFlush ==
    [][/\ TerminalFlush
       /\ Done' => (nWrite' = nRead' + 1)]_vars

\* a run of two Reads that ends on the limit with half a rune in the carry
C18_Witness ==
    /\ Done
    /\ nRead >= 2
    /\ Len(prevBuffer) > 0
    /\ Len(out) > Len(prevBuffer)
    /\ SliceFrom(out, Len(out) - Len(prevBuffer)) = prevBuffer

\* C19: when every Read and every Write returns and the source ends, the
\* main cycle ends with success; with a limit it ends as soon as the bytes
\* read reach the limit, whatever is left in the source; the loop
\* SymbolIterate ends in every iteration, each of its steps breaking or
\* shortening the buffer.
\* Variant is a measure every step of the cycle makes smaller.
Rank ==
    CASE pc = "offset" -> 4 * opts.Offset + 5
      [] pc = "read" -> 3
      [] pc = "write" -> IF endFile THEN 2 ELSE 4
      [] pc = "flush" -> 1
      [] OTHER -> 0

Variant == 4 * (Len(input) - pos) + Rank

\* the runes the last iteration decoded
Fresh(old, new) == SubSeq(new, Len(old) + 1, Len(new))

Consumed(f) == Cardinality({i \in 1..Len(f) : f[i].fate # "refused"})

\* every rune dropped or kept took at least one byte off the buffer, and at
\* most one rune, the last one, was refused
LoopShortens ==
    (pc = "read" /\ pc' = "write")
    => LET f == Fresh(seen, seen') IN
       /\ Consumed(f) <= Len(prevBuffer) + count' - Len(prevBuffer')
       /\ \A i \in 1..Len(f) : (f[i].fate = "refused") => (i = Len(f))

EndsByLimit == (Done /\ ~LastReadEnded) => LimitReached

C19_Termination ==
    /\ <>(Done /\ err = "none")
    /\ [][Variant' < Variant /\ LoopShortens /\ EndsByLimit']_vars

\* a cycle of two Reads ended by the limit with bytes left in the source
C19_Witness ==
    /\ Done
    /\ err = "none"
    /\ opts.Limit > 0
    /\ pos < Len(input)
    /\ nRead >= 2
    /\ Len(seen) >= 2

\* C20: when trim_spaces is not among the conversions, isSpaceEnded stays
\* false, no rune is dropped and no block is trimmed, so the output of a
\* finished run holds as many whitespace runes, and as many runes, as the
\* window of the source that was read.
SpaceRunes(p) ==
    LET rs == DecodeAll(p) IN Cardinality({i \in 1..Len(rs) : IsSpace(rs[i])})

C20_Frame ==
    ~HasTrim
    => /\ ~isSpaceEnded
       /\ cutN = 0
       /\ \A i \in 1..Len(seen) : seen[i].fate # "dropped"
       /\ Done => LET w == Window(input, opts.Offset, opts.Limit) IN
                  /\ SpaceRunes(out) = SpaceRunes(w)
                  /\ Len(DecodeAll(out)) = Len(DecodeAll(w))

====
